---- MODULE Spec2Model ----
(***************************************************************************)
(* Model of create_volusion_loadsheet.py: the product normalisation        *)
(* pipeline (_process_file_worker, resolve_category_names) and the form    *)
(* handlers that drive it (select_product_file, load_category_file,        *)
(* process_files, the root.after callbacks).                               *)
(*                                                                         *)
(* Cells of a table are tagged values: NaN (pandas' missing value),        *)
(* Str(s) with s a sequence of one-character strings, Num(n) with n a      *)
(* number of cents.  read_csv never yields an empty string: an empty       *)
(* field is NaN.                                                           *)
(***************************************************************************)
EXTENDS Integers, Sequences, FiniteSets, TLC

VARIABLES
    category_mapping,   \* global: id -> name (line 9)
    product_file_path,  \* global: selected path or None (line 10)
    processed_df,       \* global: last result table or None (line 8)
    process_button,     \* "disabled" | "normal" (line 258)
    save_button,        \* "disabled" | "normal" (line 262)
    disk,               \* the product CSV as it is on disk now
    dialog,             \* "none" | "category": load_category_file is in its file dialog
    threads,            \* worker threads started by process_files
    after_queue,        \* callbacks posted with root.after(0, ...)
    ids_str,            \* argument of a direct resolve_category_names call
    resolved            \* its return value, or None before the call

vars == <<category_mapping, product_file_path, processed_df, process_button,
          save_button, disk, dialog, threads, after_queue,
          ids_str, resolved>>

(***************************** bounds **************************************)
MaxIdLen == 5        \* longest categoryids string of the resolver inputs
MaxRows == 3         \* most rows of a parent/child table
MaxCellRows == 2     \* most rows of a table with missing cells
MaxMissing == 1      \* most absent columns and NaN cells of a table, together
MaxRuns == 2         \* most worker threads started in one behaviour

(***************************** cells ***************************************)
None == [none |-> TRUE]
NaN == [nan |-> TRUE]
Str(s) == [str |-> s]
Num(n) == [num |-> n]
IsStr(c) == DOMAIN c = {"str"}
IsNum(c) == DOMAIN c = {"num"}

NA == Str(<<"#", "N", "/", "A">>)
EmptyStr == Str(<<>>)

(************************ string helpers ***********************************)
RECURSIVE str_split(_, _)
\* s.split(sep): the pieces of s between occurrences of the character sep
str_split(s, sep) ==
    IF \A i \in 1..Len(s) : s[i] # sep THEN <<s>>
    ELSE LET k == CHOOSE i \in 1..Len(s) :
                      s[i] = sep /\ \A j \in 1..(i - 1) : s[j] # sep
         IN <<SubSeq(s, 1, k - 1)>> \o str_split(SubSeq(s, k + 1, Len(s)), sep)

RECURSIVE str_strip(_)
\* s.strip(): s without leading and trailing blanks
str_strip(s) ==
    IF s = <<>> THEN s
    ELSE IF Head(s) = " " THEN str_strip(Tail(s))
    ELSE IF s[Len(s)] = " " THEN str_strip(SubSeq(s, 1, Len(s) - 1))
    ELSE s

\* c.lower() on one character
char_lower(c) ==
    CASE c = "S" -> "s"
      [] c = "H" -> "h"
      [] c = "O" -> "o"
      [] c = "P" -> "p"
      [] c = "B" -> "b"
      [] OTHER -> c

str_lower(s) == [i \in 1..Len(s) |-> char_lower(s[i])]

RECURSIVE str_join(_, _)
\* sep.join(parts)
str_join(sep, parts) ==
    IF parts = <<>> THEN <<>>
    ELSE IF Len(parts) = 1 THEN parts[1]
    ELSE parts[1] \o sep \o str_join(sep, Tail(parts))

startswith_bracket(s) == s # <<>> /\ s[1] = "["
endswith_bracket(s) == s # <<>> /\ s[Len(s)] = "]"

(********************* resolve_category_names ******************************)
\* category_mapping.get(id_.strip(), f"[{id_.strip()}]")
mapping_get(mapping, id) ==
    IF id \in DOMAIN mapping THEN mapping[id] ELSE <<"[">> \o id \o <<"]">>

\* the filter of lines 63-66
keep_name(name) ==
    /\ str_lower(name) # <<"s", "h", "o", "p">>
    /\ ~(startswith_bracket(name) /\ endswith_bracket(name))

\* resolve_category_names(ids_str) reading the mapping `mapping`
resolve_category_names(cell, mapping) ==
    IF ~IsStr(cell) THEN EmptyStr
    ELSE LET ids == str_split(cell.str, ",")
             stripped == SelectSeq([i \in 1..Len(ids) |-> str_strip(ids[i])],
                                   LAMBDA t : t # <<>>)
             names == [i \in 1..Len(stripped) |-> mapping_get(mapping, stripped[i])]
             filtered_names == SelectSeq(names, keep_name)
         IN Str(str_join(<<",", " ">>, filtered_names))

(***************************** tables **************************************)
\* A table (DataFrame) is [cols |-> set of column names, rows |-> sequence of
\* rows], each row a function from cols to cells.  The result table keeps its
\* column order: there cols is a sequence.

required_cols == <<"productcode", "productname", "ischildofproductcode">>

final_column_list ==
    <<"productcode", "productname", "ischildofproductcode", "Parent Title",
      "productprice", "length", "width", "height", "productweight",
      "productdescriptionshort", "photourl", "Image 2", "Image 3",
      "producturl", "Category Names">>

\* final_variant_list.rename(columns={...})
rename_column(c) ==
    CASE c = "productcode" -> "Part #"
      [] c = "productname" -> "Full Title"
      [] c = "ischildofproductcode" -> "Parent #"
      [] c = "productprice" -> "Retail Price"
      [] c = "length" -> "Length (in)"
      [] c = "width" -> "Width (in)"
      [] c = "height" -> "Height (in)"
      [] c = "productweight" -> "Weight (in)"
      [] c = "productdescriptionshort" -> "Description"
      [] c = "photourl" -> "Image 1"
      [] c = "producturl" -> "Product Link"
      [] c = "Category Names" -> "Categories"
      [] OTHER -> c

Range(f) == {f[i] : i \in DOMAIN f}

\* df[col] = values, a series with one value for each row
with_column(df, col, values) ==
    [cols |-> df.cols \cup {col},
     rows |-> [i \in 1..Len(df.rows) |->
                  [c \in df.cols \cup {col} |->
                      IF c = col THEN values[i] ELSE df.rows[i][c]]]]

\* lines 82-84: the required columns the table lacks, in the order tested
missing_required(df) == SelectSeq(required_cols, LAMBDA c : c \notin df.cols)

\* an error that lists every missing column
AllMissing(df) == missing_required(df)

\* the columns named by the ValueError of line 84: the first one missing
error_columns(df) == <<Head(missing_required(df))>>

\* line 87: df.set_index('productcode')['productname'].to_dict(); a later row
\* with the same productcode replaces an earlier one
productcode_to_title(df) ==
    LET n == Len(df.rows)
        last(code) == CHOOSE i \in 1..n :
                          /\ df.rows[i]["productcode"] = code
                          /\ \A j \in (i + 1)..n : df.rows[j]["productcode"] # code
    IN [code \in {df.rows[i]["productcode"] : i \in 1..n} |->
            df.rows[last(code)]["productname"]]

\* line 88: Series.map(dict) on one row: no entry gives NaN
parent_title(row, titles) ==
    IF row["ischildofproductcode"] \in DOMAIN titles
    THEN titles[row["ischildofproductcode"]]
    ELSE NaN

\* line 91: df['ischildofproductcode'].dropna().unique()
child_product_codes(df) ==
    {df.rows[i]["ischildofproductcode"] : i \in 1..Len(df.rows)} \ {NaN}

\* what the comment of line 90 announces: drop the rows that have a parent
KeepParentsOnly(df, row) ==
    ~(/\ row["ischildofproductcode"] # NaN
      /\ \E i \in 1..Len(df.rows) :
            df.rows[i]["productcode"] = row["ischildofproductcode"])

\* line 92: the row test of df[~df['productcode'].isin(child_product_codes)]
row_kept(df, row) == row["productcode"] \notin child_product_codes(df)

\* lines 86-92
collapse_variants(df) ==
    LET titles == productcode_to_title(df)
        titled == with_column(df, "Parent Title",
                              [i \in 1..Len(df.rows) |->
                                  parent_title(df.rows[i], titles)])
    IN [cols |-> titled.cols,
        rows |-> SelectSeq(titled.rows, LAMBDA r : row_kept(df, r))]

(***************************** prices **************************************)
IsDigit(c) == c \in {"0", "1", "2", "3", "4", "5", "6", "7", "8", "9"}

DigitVal(c) ==
    CASE c = "0" -> 0 [] c = "1" -> 1 [] c = "2" -> 2 [] c = "3" -> 3
      [] c = "4" -> 4 [] c = "5" -> 5 [] c = "6" -> 6 [] c = "7" -> 7
      [] c = "8" -> 8 [] c = "9" -> 9

DigitChar(d) ==
    CASE d = 0 -> "0" [] d = 1 -> "1" [] d = 2 -> "2" [] d = 3 -> "3"
      [] d = 4 -> "4" [] d = 5 -> "5" [] d = 6 -> "6" [] d = 7 -> "7"
      [] d = 8 -> "8" [] d = 9 -> "9"

RECURSIVE digits_value(_)
digits_value(s) ==
    IF s = <<>> THEN 0
    ELSE 10 * digits_value(SubSeq(s, 1, Len(s) - 1)) + DigitVal(s[Len(s)])

\* pd.to_numeric(..., errors='coerce') on one cell, in cents; the strings
\* modelled are unsigned decimals with at most two fraction digits
to_numeric(cell) ==
    IF IsNum(cell) THEN cell
    ELSE IF ~IsStr(cell) THEN NaN
    ELSE LET s == cell.str
             parts == str_split(s, ".")
             whole == parts[1]
             frac == IF Len(parts) = 2 THEN parts[2] ELSE <<>>
         IN IF /\ Len(parts) \in {1, 2}
               /\ whole # <<>>
               /\ \A i \in 1..Len(whole) : IsDigit(whole[i])
               /\ \A i \in 1..Len(frac) : IsDigit(frac[i])
               /\ Len(frac) <= 2
            THEN Num(100 * digits_value(whole)
                     + (IF Len(frac) = 1 THEN 10 * digits_value(frac)
                        ELSE digits_value(frac)))
            ELSE NaN

RECURSIVE int_digits(_)
int_digits(n) ==
    IF n < 10 THEN <<DigitChar(n)>>
    ELSE int_digits(n \div 10) \o <<DigitChar(n % 10)>>

RECURSIVE grouped(_)
\* the ',' of the format: thousands groups
grouped(n) ==
    IF n < 1000 THEN int_digits(n)
    ELSE grouped(n \div 1000)
         \o <<",", DigitChar((n % 1000) \div 100),
              DigitChar((n % 100) \div 10), DigitChar(n % 10)>>

\* f"${x:,.2f}"
format_currency(cents) ==
    <<"$">> \o grouped(cents \div 100)
            \o <<".", DigitChar((cents % 100) \div 10), DigitChar(cents % 10)>>

\* the sentinel instead of the blank for a price that is no number
PriceOrNA(cell) ==
    LET x == to_numeric(cell)
    IN IF x # NaN THEN Str(format_currency(x.num)) ELSE NA

\* lines 96-97 on one cell
format_price(cell) ==
    LET x == to_numeric(cell)
    IN IF x # NaN THEN Str(format_currency(x.num)) ELSE EmptyStr

\* lines 95-97
format_prices(df) ==
    IF "productprice" \in df.cols
    THEN with_column(df, "productprice",
                     [i \in 1..Len(df.rows) |->
                         format_price(df.rows[i]["productprice"])])
    ELSE df

(**************************** projection ***********************************)
\* line 100: the test that decides whether categories are resolved
resolves_categories(df, mapping) ==
    "categoryids" \in df.cols /\ DOMAIN mapping # {}

\* lines 99-103 with one reading of the mapping for all rows
category_names(df, mapping) ==
    IF resolves_categories(df, mapping)
    THEN with_column(df, "Category Names",
                     [i \in 1..Len(df.rows) |->
                         resolve_category_names(df.rows[i]["categoryids"], mapping)])
    ELSE with_column(df, "Category Names", [i \in 1..Len(df.rows) |-> NA])

\* a blank instead of the sentinel
BlankValue == EmptyStr

\* line 115: the value of a column the table lacks
backfill_value == NA

\* lines 113-115
backfill(df) ==
    [cols |-> df.cols \cup Range(final_column_list),
     rows |-> [i \in 1..Len(df.rows) |->
                  [c \in df.cols \cup Range(final_column_list) |->
                      IF c \in df.cols THEN df.rows[i][c] ELSE backfill_value]]]

\* no fillna
KeepNaN(cell) == cell

\* line 135 on one cell
fillna(cell) == IF cell = NaN THEN NA ELSE cell

\* lines 105-135: backfill, select, rename, fillna
project(df) ==
    LET full == backfill(df)
        out_cols == [i \in 1..Len(final_column_list) |->
                        rename_column(final_column_list[i])]
    IN [cols |-> out_cols,
        rows |-> [i \in 1..Len(full.rows) |->
                     [oc \in Range(out_cols) |->
                         LET c == CHOOSE c \in Range(final_column_list) :
                                      rename_column(c) = oc
                         IN fillna(full.rows[i][c])]]]

\* lines 86-135 for a table that has the required columns
process_table(df, mapping) ==
    project(category_names(format_prices(collapse_variants(df)), mapping))

(****************************** inputs *************************************)
SourceCols ==
    {"productcode", "productname", "ischildofproductcode", "productprice",
     "length", "width", "height", "productweight", "productdescriptionshort",
     "photourl", "Image 2", "Image 3", "producturl", "categoryids"}

HyperlinkCols == {"photourl", "Image 2", "Image 3", "producturl"}

SeqsUpTo(S, n) == UNION {[1..k -> S] : k \in 0..n}

Shop == <<"S", "h", "o", "p">>
ShopUpper == <<"S", "H", "O", "P">>
Brakes == <<"B", "r", "a", "k", "e", "s">>
Oil == <<"O", "i", "l">>
Bracketed == <<"[", "X", "]">>
EmptyMapping == [id \in {} |-> <<>>]

Id1 == <<"1">>
Id2 == <<"2">>
Id3 == <<"3">>

\* dict(zip(categoryid, categoryname)) of a few category files
MappingShopBrakes == [id \in {Id1, Id2} |-> IF id = Id1 THEN Shop ELSE Brakes]
MappingOilBrakes == [id \in {Id1, Id2} |-> IF id = Id1 THEN Oil ELSE Brakes]
ResolveMappings ==
    {EmptyMapping,
     MappingShopBrakes,
     [id \in {Id1, Id2, Id3} |->
         IF id = Id1 THEN ShopUpper ELSE IF id = Id2 THEN Brakes ELSE Oil],
     [id \in {Id1, Id2, Id3} |->
         IF id = Id1 THEN Brakes ELSE IF id = Id2 THEN Bracketed ELSE Shop],
     [id \in {Id1, Id3} |-> IF id = Id1 THEN Oil ELSE Brakes]}

IdChars == {"1", "2", "3", ",", " "}
ResolveInputs ==
    {Str(s) : s \in SeqsUpTo(IdChars, MaxIdLen)} \cup {NaN, Num(1200)}

CodeA == Str(<<"A">>)
CodeB == Str(<<"B">>)
CodeZ == Str(<<"Z">>)      \* never a productcode
NameX == Str(<<"x">>)
NameY == Str(<<"y">>)
Ids123 == Str(<<"1", ",", "2", ",", "3">>)

\* a row with every source column filled in, each column with its own value
base_row(code, name, parent) ==
    [c \in SourceCols |->
        CASE c = "productcode" -> code
          [] c = "productname" -> name
          [] c = "ischildofproductcode" -> parent
          [] c = "productprice" -> Num(123450)
          [] c = "length" -> Num(1200)
          [] c = "width" -> Num(800)
          [] c = "height" -> Num(50)
          [] c = "productweight" -> Num(325)
          [] c = "productdescriptionshort" -> Str(<<"d">>)
          [] c = "photourl" -> Str(<<"u", "1">>)
          [] c = "Image 2" -> Str(<<"u", "2">>)
          [] c = "Image 3" -> Str(<<"u", "3">>)
          [] c = "producturl" -> Str(<<"u", "4">>)
          [] c = "categoryids" -> Ids123]

CollapseRows ==
    {base_row(code, name, parent) :
        code \in {CodeA, CodeB}, name \in {NameX, NameY},
        parent \in {NaN, CodeA, CodeB}}

CollapseTables ==
    {[cols |-> SourceCols, rows |-> rs] : rs \in SeqsUpTo(CollapseRows, MaxRows)}

\* price and category cells of the row with missing cells
CellVariants ==
    {<<Num(123450), Ids123>>, <<Str(<<"a">>), Ids123>>,
     <<Str(<<"9", ".", "5">>), Str(<<"1">>)>>, <<Num(995), Num(200)>>}

restrict(row, cols) == [c \in cols |-> row[c]]

\* a table that lacks the columns `absent`: one row with NaN in the columns
\* `nulls`, followed by complete rows
cell_table(absent, nulls, variant, n) ==
    LET first == [c \in SourceCols |->
                     IF c \in nulls THEN NaN
                     ELSE IF c = "productprice" THEN variant[1]
                     ELSE IF c = "categoryids" THEN variant[2]
                     ELSE base_row(CodeA, NameX, CodeZ)[c]]
    IN [cols |-> SourceCols \ absent,
        rows |-> [k \in 1..n |->
                     restrict(IF k = 1 THEN first ELSE base_row(CodeB, NameY, NaN),
                              SourceCols \ absent)]]

CellTables ==
    {cell_table(absent, nulls, variant, n) :
        absent \in {S \in SUBSET SourceCols : Cardinality(S) <= MaxMissing},
        nulls \in {S \in SUBSET (SourceCols \ {"productcode"}) :
                      Cardinality(S) <= MaxMissing},
        variant \in CellVariants, n \in 1..MaxCellRows}

\* the absent columns and the NaN cells of its first row
missing_count(table) ==
    Cardinality(SourceCols \ table.cols)
        + Cardinality({c \in table.cols : table.rows[1][c] = NaN})

\* what open()/read_csv can meet at the product path
NoFile == [nofile |-> TRUE]
EmptyFile == [emptyfile |-> TRUE]
IsTable(d) == DOMAIN d = {"cols", "rows"}

TwoRows == <<base_row(CodeA, NameX, NaN), base_row(CodeB, NameY, CodeZ)>>
GoodTable == [cols |-> SourceCols, rows |-> TwoRows]
DiskStates ==
    {GoodTable,
     [cols |-> SourceCols \ {"productcode", "ischildofproductcode"},
      rows |-> [k \in 1..2 |->
                   restrict(TwoRows[k],
                            SourceCols \ {"productcode", "ischildofproductcode"})]],
     NoFile, EmptyFile}

(************************** worker thread **********************************)
\* A thread is [pc, df, names, read, start_mapping, error, out]: df and names
\* are its locals, read the table it loaded, start_mapping the mapping when
\* process_files started it, error what it raised, out the table it stored.
new_thread(mapping) ==
    [pc |-> "read", df |-> None, names |-> <<>>, read |-> None,
     start_mapping |-> mapping, error |-> None, out |-> None]

ValueError(cols) == [type |-> "ValueError", columns |-> cols]
FileNotFoundError == [type |-> "FileNotFoundError", columns |-> <<>>]
EmptyDataError == [type |-> "EmptyDataError", columns |-> <<>>]

\* the exception lines 73-84 raise on what is on disk, or None
load_error(d) ==
    IF d = NoFile THEN FileNotFoundError
    ELSE IF d = EmptyFile THEN EmptyDataError
    ELSE IF missing_required(d) # <<>> THEN ValueError(error_columns(d))
    ELSE None

\* root.after(0, ...) of lines 138-169
success_callback(t) == [run |-> t, error |-> None]
failure_callback(t, e) == [run |-> t, error |-> e]

\* lines 71-97 and the except clauses: load, validate, collapse, format prices
WorkerRead(t) ==
    /\ threads[t].pc = "read"
    /\ LET e == load_error(disk)
       IN IF e # None
          THEN /\ threads' = [threads EXCEPT ![t].pc = "done", ![t].error = e,
                                             ![t].read = disk]
               /\ after_queue' = Append(after_queue, failure_callback(t, e))
          ELSE /\ threads' = [threads EXCEPT
                                 ![t].pc = "categories", ![t].read = disk,
                                 ![t].df = format_prices(collapse_variants(disk))]
               /\ UNCHANGED after_queue
    /\ UNCHANGED <<category_mapping, product_file_path, processed_df,
                   process_button, save_button, disk, dialog,
                   ids_str, resolved>>

\* line 100, and line 103 when the test fails
WorkerCategories(t) ==
    /\ threads[t].pc = "categories"
    /\ IF resolves_categories(threads[t].df, category_mapping)
       THEN IF threads[t].df.rows = <<>>
            THEN threads' = [threads EXCEPT
                                ![t].pc = "project",
                                ![t].df = with_column(threads[t].df,
                                                      "Category Names", <<>>)]
            ELSE threads' = [threads EXCEPT ![t].pc = "resolve"]
       ELSE threads' = [threads EXCEPT
                           ![t].pc = "project",
                           ![t].df = with_column(threads[t].df, "Category Names",
                                                 [i \in 1..Len(threads[t].df.rows) |-> NA])]
    /\ UNCHANGED <<category_mapping, product_file_path, processed_df,
                   process_button, save_button, disk, dialog, after_queue, ids_str, resolved>>

\* line 101: one call of resolve_category_names by Series.map; each call
\* reads the global category_mapping as it is at that moment
WorkerResolveRow(t) ==
    /\ threads[t].pc = "resolve"
    /\ LET i == Len(threads[t].names) + 1
           names == Append(threads[t].names,
                           resolve_category_names(threads[t].df.rows[i]["categoryids"],
                                                  category_mapping))
       IN threads' =
              IF i = Len(threads[t].df.rows)
              THEN [threads EXCEPT ![t].pc = "project", ![t].names = <<>>,
                                   ![t].df = with_column(threads[t].df,
                                                         "Category Names", names)]
              ELSE [threads EXCEPT ![t].names = names]
    /\ UNCHANGED <<category_mapping, product_file_path, processed_df,
                   process_button, save_button, disk, dialog, after_queue, ids_str, resolved>>

\* lines 105-141: project, store the result, post the success callback
WorkerPublish(t) ==
    /\ threads[t].pc = "project"
    /\ processed_df' = project(threads[t].df)
    /\ threads' = [threads EXCEPT ![t].pc = "done", ![t].df = None,
                                  ![t].out = project(threads[t].df)]
    /\ after_queue' = Append(after_queue, success_callback(t))
    /\ UNCHANGED <<category_mapping, product_file_path, process_button,
                   save_button, disk, dialog, ids_str, resolved>>

\* _process_file_worker run from start to end with no other thread in between
WorkerRun(t) ==
    /\ threads[t].pc = "read"
    /\ LET e == load_error(disk)
       IN IF e # None
          THEN /\ threads' = [threads EXCEPT ![t].pc = "done", ![t].error = e,
                                             ![t].read = disk]
               /\ after_queue' = Append(after_queue, failure_callback(t, e))
               /\ UNCHANGED processed_df
          ELSE /\ threads' = [threads EXCEPT
                                 ![t].pc = "done", ![t].read = disk,
                                 ![t].out = process_table(disk, category_mapping)]
               /\ processed_df' = process_table(disk, category_mapping)
               /\ after_queue' = Append(after_queue, success_callback(t))
    /\ UNCHANGED <<category_mapping, product_file_path, process_button,
                   save_button, disk, dialog, ids_str, resolved>>

\* the main loop runs the oldest root.after callback: lines 138-141 on
\* success, lines 144-169 on an exception
AfterCallback ==
    /\ after_queue # <<>>
    /\ after_queue' = Tail(after_queue)
    /\ save_button' = IF Head(after_queue).error = None THEN "normal"
                      ELSE "disabled"
    /\ UNCHANGED <<category_mapping, product_file_path, processed_df,
                   process_button, disk, dialog, threads, ids_str, resolved>>

(***************************** handlers ************************************)
ProductPath == [path |-> "products.csv"]
CategoryFiles == {MappingShopBrakes, MappingOilBrakes, EmptyMapping}

\* select_product_file with a file chosen that passes lines 177-187 (a
\* cancelled dialog or a rejected file changes no variable)
SelectProductFile ==
    /\ dialog = "none"
    /\ load_error(disk) = None
    /\ product_file_path' = ProductPath
    /\ process_button' = "disabled"
    /\ UNCHANGED <<category_mapping, processed_df, save_button, disk, dialog,
                   threads, after_queue, ids_str, resolved>>

\* load_category_file, lines 17-20: the mapping is emptied, then the file
\* dialog opens and the main thread waits in it
LoadCategoryBegin ==
    /\ dialog = "none"
    /\ category_mapping' = EmptyMapping
    /\ dialog' = "category"
    /\ UNCHANGED <<product_file_path, processed_df, process_button, save_button,
                   disk, threads, after_queue, ids_str, resolved>>

\* lines 21-23, 32-35 and 45-53: the dialog is cancelled or the chosen file is
\* rejected
LoadCategoryCancel ==
    /\ dialog = "category"
    /\ dialog' = "none"
    /\ UNCHANGED <<category_mapping, product_file_path, processed_df,
                   process_button, save_button, disk, threads, after_queue, ids_str, resolved>>

\* lines 37-43: the chosen file is read; a file with no rows gives {}
LoadCategoryOk ==
    /\ dialog = "category"
    /\ dialog' = "none"
    /\ \E m \in CategoryFiles : category_mapping' = m
    /\ process_button' = IF product_file_path # None THEN "normal"
                         ELSE process_button
    /\ UNCHANGED <<product_file_path, processed_df, save_button, disk, threads,
                   after_queue, ids_str, resolved>>

\* process_files, run by a click on the enabled Process button, past the two
\* early returns of lines 205-210 (which change no variable)
ProcessFiles ==
    /\ dialog = "none"
    /\ process_button = "normal"
    /\ product_file_path # None
    /\ DOMAIN category_mapping # {}
    /\ Len(threads) < MaxRuns
    /\ save_button' = "disabled"
    /\ threads' = Append(threads, new_thread(category_mapping))
    /\ UNCHANGED <<category_mapping, product_file_path, processed_df,
                   process_button, disk, dialog, after_queue, ids_str, resolved>>

\* another program rewrites, empties or removes the product file
ChangeDisk ==
    /\ \E d \in DiskStates \ {disk} : disk' = d
    /\ UNCHANGED <<category_mapping, product_file_path, processed_df,
                   process_button, save_button, dialog, threads, after_queue, ids_str, resolved>>

\* a direct call of resolve_category_names
CallResolve ==
    /\ resolved = None
    /\ resolved' = resolve_category_names(ids_str, category_mapping)
    /\ UNCHANGED <<category_mapping, product_file_path, processed_df,
                   process_button, save_button, disk, dialog, threads,
                   after_queue, ids_str>>

(************************** specifications *********************************)
\* the form after construction (lines 8-10, 240-267)
Init ==
    /\ category_mapping = EmptyMapping
    /\ product_file_path = None
    /\ processed_df = None
    /\ process_button = "disabled"
    /\ save_button = "disabled"
    /\ disk \in DiskStates
    /\ dialog = "none"
    /\ threads = <<>>
    /\ after_queue = <<>>
    /\ ids_str = None
    /\ resolved = None

Next ==
    \/ SelectProductFile
    \/ LoadCategoryBegin
    \/ LoadCategoryCancel
    \/ LoadCategoryOk
    \/ ProcessFiles
    \/ ChangeDisk
    \/ AfterCallback
    \/ \E t \in DOMAIN threads : WorkerRead(t)
    \/ \E t \in DOMAIN threads : WorkerCategories(t)
    \/ \E t \in DOMAIN threads : WorkerResolveRow(t)
    \/ \E t \in DOMAIN threads : WorkerPublish(t)

Spec == Init /\ [][Next]_vars

\* the result an earlier run has left in processed_df
EarlierResult == process_table(GoodTable, MappingOilBrakes)

\* one run of the worker, nothing interleaved: the table on disk, the
\* mapping loaded, and processed_df as it is when process_files starts the run
PipeInputs ==
    {<<table, MappingShopBrakes, None>> : table \in CollapseTables}
        \cup {<<table, mapping, None>> :
                 table \in {ct \in CellTables : missing_count(ct) <= MaxMissing},
                 mapping \in {MappingShopBrakes, EmptyMapping}}
        \cup {<<d, MappingShopBrakes, previous>> :
                 d \in DiskStates, previous \in {None, EarlierResult}}

\* the state process_files leaves when it has started the worker
InitPipe ==
    /\ \E in \in PipeInputs :
          /\ disk = in[1]
          /\ category_mapping = in[2]
          /\ processed_df = in[3]
          /\ threads = <<new_thread(in[2])>>
    /\ product_file_path = ProductPath
    /\ process_button = "normal"
    /\ save_button = "disabled"
    /\ dialog = "none"
    /\ after_queue = <<>>
    /\ ids_str = None
    /\ resolved = None

NextPipe ==
    \/ WorkerRun(1)
    \/ AfterCallback

SpecPipe == InitPipe /\ [][NextPipe]_vars

\* resolve_category_names called once on each input with each mapping
InitResolve ==
    /\ ids_str \in ResolveInputs
    /\ category_mapping \in ResolveMappings
    /\ resolved = None
    /\ product_file_path = None
    /\ processed_df = None
    /\ process_button = "disabled"
    /\ save_button = "disabled"
    /\ disk = NoFile
    /\ dialog = "none"
    /\ threads = <<>>
    /\ after_queue = <<>>

NextResolve == CallResolve

SpecResolve == InitResolve /\ [][NextResolve]_vars

(****************************** claims *************************************)
\* In SpecPipe the table on disk is the input of the one run and, once the
\* run has stored a result, processed_df its output.
Succeeded == Len(threads) = 1 /\ threads[1].out # None

InputIndices == 1..Len(disk.rows)
OutputIndices == 1..Len(processed_df.rows)

\* row i's productcode is some row's ischildofproductcode, its own included
Referenced(i) ==
    \E j \in InputIndices :
        disk.rows[j]["ischildofproductcode"] = disk.rows[i]["productcode"]

\* row i's productcode is another row's ischildofproductcode
ReferencedByAnother(i) ==
    \E j \in InputIndices \ {i} :
        disk.rows[j]["ischildofproductcode"] = disk.rows[i]["productcode"]

\* the input rows no ischildofproductcode refers to, in input order
Survivors == SelectSeq(disk.rows,
                       LAMBDA r : \A j \in InputIndices :
                           disk.rows[j]["ischildofproductcode"] # r["productcode"])

\* C1: after the variant collapse no output row is a child, that is, no
\* output row has a non-empty Parent # that is the productcode of another
\* input row.  (Stated as the claim has it; the code keeps such rows.)
C1_NoChildInOutput ==
    Succeeded =>
        \A k \in OutputIndices :
            LET o == processed_df.rows[k]
            IN ~(/\ o["Parent #"] # NA
                 /\ o["Parent #"] # o["Part #"]
                 /\ \E j \in InputIndices :
                       disk.rows[j]["productcode"] = o["Parent #"])

C3_ParentRowsSurviveWithOwnTitle ==
    Succeeded =>
        \A i \in InputIndices :
            LET r == disk.rows[i]
            IN (\/ r["ischildofproductcode"] = NaN
                \/ \A j \in InputIndices :
                       disk.rows[j]["productcode"] # r["ischildofproductcode"])
               => \E k \in OutputIndices :
                      /\ processed_df.rows[k]["Part #"] = r["productcode"]
                      /\ processed_df.rows[k]["Full Title"] =
                             (IF r["productname"] = NaN THEN NA ELSE r["productname"])
                      /\ processed_df.rows[k]["Parent Title"] =
                             (IF r["productname"] = NaN THEN NA ELSE r["productname"])

OutputCols == Range(processed_df.cols)

LinkColumn(c) ==
    CASE c = "photourl" -> "Image 1"
      [] c = "Image 2" -> "Image 2"
      [] c = "Image 3" -> "Image 3"
      [] c = "producturl" -> "Product Link"

\* a spreadsheet formula longer than the URL that contains it
IsHyperlinkOf(cell, url) ==
    /\ IsStr(cell)
    /\ Len(cell.str) > Len(url)
    /\ cell.str[1] = "="
    /\ \E k \in 1..(Len(cell.str) - Len(url) + 1) :
          SubSeq(cell.str, k, k + Len(url) - 1) = url

DeclaredColumns ==
    <<"Part #", "Full Title", "Parent #", "Parent Title", "Retail Price",
      "Length (in)", "Width (in)", "Height (in)", "Weight (in)", "Description",
      "Image 1", "Image 2", "Image 3", "Product Link", "Categories">>

\* the output column fed by a source column
OutputOf(c) ==
    CASE c = "productcode" -> "Part #"
      [] c = "productname" -> "Full Title"
      [] c = "ischildofproductcode" -> "Parent #"
      [] c = "productprice" -> "Retail Price"
      [] c = "length" -> "Length (in)"
      [] c = "width" -> "Width (in)"
      [] c = "height" -> "Height (in)"
      [] c = "productweight" -> "Weight (in)"
      [] c = "productdescriptionshort" -> "Description"
      [] c = "photourl" -> "Image 1"
      [] c = "Image 2" -> "Image 2"
      [] c = "Image 3" -> "Image 3"
      [] c = "producturl" -> "Product Link"
      [] c = "categoryids" -> "Categories"

\* C8: the output has exactly the declared columns in the declared order,
\* and every cell of an output column whose source column the product table
\* lacks is "#N/A".
C8_AbsentColumnIsNA ==
    Succeeded =>
        /\ processed_df.cols = DeclaredColumns
        /\ \A k \in OutputIndices :
              /\ DOMAIN processed_df.rows[k] = Range(DeclaredColumns)
              /\ \A c \in SourceCols \ disk.cols :
                    processed_df.rows[k][OutputOf(c)] = NA

\* C8 witness: a run on a table without productweight that has output rows.
C8_Witness ==
    /\ Succeeded
    /\ "productweight" \notin disk.cols
    /\ Len(processed_df.rows) > 0
    /\ \A k \in OutputIndices : processed_df.rows[k]["Weight (in)"] = NA

(* resolve_category_names as the claim C5 describes it *)
claimed_names(cell, mapping) ==
    IF ~IsStr(cell) THEN <<>>
    ELSE LET pieces == str_split(cell.str, ",")
             tokens == SelectSeq([i \in 1..Len(pieces) |-> str_strip(pieces[i])],
                                 LAMBDA t : t # <<>>)
             kept == SelectSeq(tokens,
                               LAMBDA t : /\ t \in DOMAIN mapping
                                          /\ str_lower(mapping[t]) # <<"s", "h", "o", "p">>)
         IN str_join(<<",", " ">>, [i \in 1..Len(kept) |-> mapping[kept[i]]])

\* C5: resolve_category_names returns the names of the non-empty trimmed
\* ids, in input order, joined by ", ", without the names equal to "shop"
\* in any case and without the unmapped ids, and with every other mapped
\* name; a non-string or empty input gives the empty string.  (Stated as
\* the claim has it.)
C5_ResolvesEveryOtherName ==
    resolved # None => resolved = Str(claimed_names(ids_str, category_mapping))

\* the required columns a table lacks
Lacking(d) ==
    {c \in {"productcode", "productname", "ischildofproductcode"} : c \notin d.cols}

FirstLacking(d) ==
    IF "productcode" \notin d.cols THEN "productcode"
    ELSE IF "productname" \notin d.cols THEN "productname"
    ELSE "ischildofproductcode"

\* thread t ends in this step on a table that lacks a required column
AbortsOnSchema(t) ==
    /\ threads[t].pc = "read"
    /\ threads'[t].pc = "done"
    /\ IsTable(disk)
    /\ Lacking(disk) # {}

\* what C6 says of such a step, but for the columns the error names
AbortIsClean(t) ==
    /\ threads'[t].error # None
    /\ threads'[t].error.type = "ValueError"
    /\ threads'[t].df = None
    /\ threads'[t].out = None
    /\ processed_df' = processed_df
    /\ save_button' = save_button
    /\ after_queue' = Append(after_queue, [run |-> t, error |-> threads'[t].error])

\* the callback of a failed run leaves the Save button disabled
FailureCallbackDisablesSave ==
    (/\ after_queue # <<>>
     /\ after_queue' = Tail(after_queue)
     /\ Head(after_queue).error # None)
        => save_button' = "disabled"

\* C6 as stated: a run on a table that lacks required columns aborts before
\* any row is processed with an error that names the missing columns, all
\* of them; it stores no result and its callback disables saving.
C6_ErrorNamesAllMissing ==
    [][/\ \A t \in DOMAIN threads :
             AbortsOnSchema(t) =>
                 /\ AbortIsClean(t)
                 /\ Range(threads'[t].error.columns) = Lacking(disk)
       /\ FailureCallbackDisablesSave]_vars

\* C6 amended: such a run aborts before any row is processed with an error
\* that names the first missing column in the order productcode,
\* productname, ischildofproductcode, and only that one; it stores no
\* result and its callback disables saving.
C6_ErrorNamesFirstMissing ==
    [][/\ \A t \in DOMAIN threads :
             AbortsOnSchema(t) =>
                 /\ AbortIsClean(t)
                 /\ threads'[t].error.columns = <<FirstLacking(disk)>>
       /\ FailureCallbackDisablesSave]_vars

\* C6 witness: the run has aborted on a table lacking required columns and
\* its callback has run; the result of an earlier run is still stored.
C6_Witness ==
    /\ \E t \in DOMAIN threads :
          /\ threads[t].pc = "done"
          /\ threads[t].error # None
          /\ threads[t].error.type = "ValueError"
          /\ threads[t].out = None
          /\ \A q \in 1..Len(after_queue) : after_queue[q].run # t
    /\ processed_df = EarlierResult
    /\ save_button = "disabled"

\* C9: the output of a run depends only on the product table it read and on
\* the category mapping as it was when process_files started the run.
\* (Stated as the claim has it; the worker reads the global mapping later.)
C9_RunUsesItsOwnMapping ==
    \A t \in DOMAIN threads :
        threads[t].out # None =>
            threads[t].out = process_table(threads[t].read, threads[t].start_mapping)

\* C10: whenever the Process button is enabled a product file is selected
\* and the category mapping is non-empty.  (Stated as the claim has it.)
C10_EnabledImpliesReady ==
    process_button = "normal" =>
        /\ product_file_path # None
        /\ DOMAIN category_mapping # {}

====
